---- MODULE Spec2Model ----
(***************************************************************************)
(* The concurrent probing engine of the recon tool: portscan_module.run()  *)
(* and banner.run().  Both resolve the target, create a ThreadPoolExecutor *)
(* of max_workers threads, submit one probe per element of the port list,  *)
(* collect the futures with as_completed, sort the collected entries by    *)
(* port and return a report.  The variable `kind` says which of the two    *)
(* run() functions the behaviour is a call of.                             *)
(***************************************************************************)
EXTENDS Integers, Sequences, FiniteSets, TLC

\* ---------------------------------------------------------------- bounds
\* Longest port list handed to run().
MaxPorts == 2
\* Largest max_workers handed to run() (0 is the invalid value).
MaxWorkers == 2

\* ---------------------------------------------------------------- inputs
Kinds == {"port_scan", "banner_grab"}
Targets == {"example.com", "no-such-host.invalid"}
\* targets gethostbyname can resolve; the others always fail
Resolvable == {"example.com"}
Ports == {22, 80, 443}
\* timeout values: a valid one and a negative one, which float() accepts and
\* socket.settimeout() rejects with ValueError.
Timeouts == {-1, 1}
\* what connect_ex gives for a port: 0 (open) or an errno (refused)
ConnectResults == {"open", "refused"}

None == "None"
ResolvedAddress == "93.184.216.34"
NoError == "no error key"
InterruptedError == "Scan interrupted by user"
MaxWorkersError == "max_workers must be greater than 0"

\* All sequences over S of length at most n.
SeqsUpTo(S, n) == UNION {[1..k -> S] : k \in 0..n}

\* The elements of a sequence.
Range(s) == {s[i] : i \in DOMAIN s}

VARIABLES
    kind,        \* which run(): "port_scan" or "banner_grab"
    target,      \* run()'s target argument
    ports,       \* the port list (scan_config["ports"] / ports)
    max_workers, \* the worker count handed to ThreadPoolExecutor
    timeout,     \* the per-probe timeout
    net,         \* the network: what connect_ex answers for each port
    pc,          \* position of the thread that called run()
    resolved_ip, \* run()'s local resolved_ip
    nsub,        \* number of elements of ports submitted so far
    queue,       \* the executor's work queue (indices into ports), FIFO
    nthreads,    \* threads the executor has started
    idle,        \* the executor's idle semaphore
    status,      \* per submitted index: "new", "queued", "running", "done"
    ret,         \* per index: what the probe call gave: "open", None or "raised"
    sock,        \* per index: the probe's socket: "none", "open" or "closed"
    calls,       \* per index: number of times the probe function was invoked
    collected,   \* futures as_completed has yielded to the collecting loop
    results,     \* run()'s local list open_ports / banners (the port fields)
    report,      \* what run() returned
    interrupted, \* whether KeyboardInterrupt was delivered during the run
    config,      \* the config dictionary / keyword arguments run() was called with
    probe,       \* one probe call followed statement by statement
    first,       \* what an earlier run() over the same arguments returned
    resolves,    \* number of calls of _resolve_target in this run
    addr,        \* per index: the address the probe was submitted with
    label,       \* one call of a service-labelling function, with its result
    cli          \* main(): its position, module list, flags and exit code

vars == <<kind, target, ports, max_workers, timeout, net, pc, resolved_ip, nsub,
          queue, nthreads, idle, status, ret, sock, calls, collected, results,
          report, interrupted, config, probe, first, resolves, addr, label,
          cli>>

\* what the dispatch leaves alone: the caller's raw configuration, the single
\* probe call followed in detail and the record of an earlier run
aux == <<config, probe, first, label, cli>>

inputs == <<kind, target, ports, max_workers, timeout, net>>
pool == <<queue, nthreads, idle>>
tasks == <<status, ret, sock, calls, addr>>

Idx == 1..Len(ports)
Running == {i \in Idx : status[i] = "running"}
InFlight == Cardinality(Running)

NoReport ==
    [returned |-> FALSE, resolved_ip |-> None, results |-> <<>>, error |-> NoError]

\* ------------------------------------------------------------ pure helpers

\* Insert port p into the ascending sequence s, after the entries equal to it.
RECURSIVE Insert(_, _)
Insert(p, s) ==
    IF s = <<>> THEN <<p>>
    ELSE IF p < Head(s) THEN <<p>> \o s
    ELSE <<Head(s)>> \o Insert(p, Tail(s))

\* list.sort(key=lambda x: x["port"]): ascending by port, duplicates kept.
RECURSIVE SortByPort(_)
SortByPort(s) ==
    IF s = <<>> THEN <<>>
    ELSE Insert(s[Len(s)], SortByPort(SubSeq(s, 1, Len(s) - 1)))

\* Number of entries of the sequence s equal to p.
Count(s, p) == Cardinality({i \in DOMAIN s : s[i] = p})

\* ------------------------------------------------------------------ probes
\* What one probe call leaves behind: ret is "value" (a port / banner entry was
\* returned), None, or "raised" (an exception left the function); sock is the
\* state of the socket the call created when the call ends.
Outcome(r, s) == [ret |-> r, sock |-> s]

\* Local faults a probe call can meet: socket.socket() raising (no descriptor
\* left), or connect_ex raising instead of returning an errno.
Faults == {"none", "socket", "connect"}

\* _scan_port(ip, port, timeout): socket() and settimeout() run before the try,
\* the connect inside it, close() in its finally.
_scan_port(conn, tmo, fault) ==
    IF fault = "socket" THEN Outcome("raised", "none")
    ELSE IF tmo < 0 THEN Outcome("raised", "open")
    ELSE IF fault = "connect" THEN Outcome(None, "closed")
    ELSE IF conn = "open" THEN Outcome("value", "closed")
    ELSE Outcome(None, "closed")

\* _grab_banner(ip, port, timeout): as _scan_port, then the banner reads;
\* data says whether the reads ended with a non-empty banner.
_grab_banner(conn, tmo, fault, data) ==
    IF fault = "socket" THEN Outcome("raised", "none")
    ELSE IF tmo < 0 THEN Outcome("raised", "open")
    ELSE IF fault = "connect" THEN Outcome(None, "closed")
    ELSE IF conn # "open" THEN Outcome(None, "closed")
    ELSE IF data THEN Outcome("value", "closed")
    ELSE Outcome(None, "closed")

\* The probe function run() submits, by kind.
Probe(k, conn, tmo, fault, data) ==
    IF k = "port_scan" THEN _scan_port(conn, tmo, fault)
    ELSE _grab_banner(conn, tmo, fault, data)

\* The probe record while no probe call is followed.
IdleProbe == [pc |-> "idle"]

\* The labelling record and main()'s record while neither is followed.
NoLabel == [pc |-> "idle"]
NoCli == [pc |-> "idle"]

\* The record of an earlier run while there was none.
NoFirst == [returned |-> FALSE, results |-> <<>>, clean |-> FALSE]

\* ----------------------------------------------------------------- reports
ResolveFailureReport(t) ==
    [returned |-> TRUE, resolved_ip |-> None, results |-> <<>>,
     error |-> "Failed to resolve target: " \o t]

CompletedReport(ip, res) ==
    [returned |-> TRUE, resolved_ip |-> ip, results |-> res, error |-> NoError]

\* InterruptedReport that starts from an empty list.
InterruptedReportEmpty(ip, res) ==
    [returned |-> TRUE, resolved_ip |-> ip, results |-> <<>>,
     error |-> InterruptedError]

InterruptedReport(ip, res) ==
    [returned |-> TRUE, resolved_ip |-> ip, results |-> res,
     error |-> InterruptedError]

ExceptionReport(ip, res, e) ==
    [returned |-> TRUE, resolved_ip |-> ip, results |-> res, error |-> e]

\* ----------------------------------------------------------- configuration
\* Times are counted in half seconds: 1.5 s is 3, 3.0 s is 6.
\* default_config["timeout"] of _parse_config (1.5 s)
DefaultTimeout == 3
\* default_config["max_workers"] of _parse_config
DefaultMaxWorkers == 50
\* banner.run's defaults: timeout=3.0, max_workers=10
BannerDefaultTimeout == 6
BannerDefaultMaxWorkers == 10
\* main.py's argparse defaults for --timeout (1.5 s) and --workers
CliDefaultTimeout == 3
CliDefaultWorkers == 50
\* the worker cap run_banner_grab applies: min(args.workers, 20)
BannerWorkerCap == 20
\* the largest TCP port
MaxPortNumber == 65535

DEFAULT_PORTS ==
    <<21, 22, 23, 25, 53, 80, 110, 143, 443, 465, 587, 993, 995, 3306, 3389,
      5432, 8080, 8443>>
BANNER_PORTS == <<21, 22, 25, 80, 110, 143, 443, 3306, 5432, 6379, 8080>>

\* A scalar the caller gave: tag "absent" (key or argument missing), "text"
\* (a value float()/int() rejects) or "int" with its value.
Scalar(tag, val) == [tag |-> tag, val |-> val]
Absent == Scalar("absent", 0)
Text == Scalar("text", 0)
Number(n) == Scalar("int", n)

\* The ports the caller gave: tag "absent", "list" (a list of ports), "range"
\* (a tuple (lo, hi) of integers) or "textrange" (a 2-tuple int() rejects).
PortsArg(tag, lo, hi, list) == [tag |-> tag, lo |-> lo, hi |-> hi, list |-> list]
NoPorts == PortsArg("absent", 0, 0, <<>>)
PortList(l) == PortsArg("list", 0, 0, l)
PortRange(lo, hi) == PortsArg("range", lo, hi, <<>>)
TextRange == PortsArg("textrange", 0, 0, <<>>)

\* The caller's configuration while no call is being configured.
NoConfig ==
    [via |-> "none", timeout |-> Absent, ports |-> NoPorts, max_workers |-> Absent]

Min(a, b) == IF a < b THEN a ELSE b

\* list(range(lo, hi + 1))
RangeList(lo, hi) == [i \in 1..(hi - lo + 1) |-> lo + i - 1]

\* main.parse_ports leaves the process with sys.exit(1) on a port string whose
\* parts int() rejects.
CliRejects(c) == c.via = "cli" /\ c.ports.tag = "textrange"

\* What main.run_portscan / main.run_banner_grab hand to run(): argparse has
\* filled in --timeout and --workers, run_banner_grab caps the workers and
\* expands a range; a direct call hands over the caller's values.
CliArgs(k, c) ==
    IF c.via # "cli" THEN c
    ELSE [via |-> c.via,
          timeout |-> IF c.timeout.tag = "absent"
                      THEN Number(CliDefaultTimeout) ELSE c.timeout,
          ports |-> IF k = "banner_grab" /\ c.ports.tag = "range"
                    THEN PortList(RangeList(c.ports.lo, c.ports.hi))
                    ELSE c.ports,
          max_workers |->
              LET w == IF c.max_workers.tag = "absent"
                       THEN CliDefaultWorkers ELSE c.max_workers.val
              IN  IF k = "banner_grab" THEN Number(Min(w, BannerWorkerCap))
                  ELSE Number(w)]

\* _parse_config, "timeout": float(value), the default on ValueError/TypeError
\* or when the key is missing; banner.run uses its argument or its default.
ParseTimeout(k, raw) ==
    IF raw.tag = "int" THEN raw.val
    ELSE IF k = "port_scan" THEN DefaultTimeout ELSE BannerDefaultTimeout

\* _parse_config, "max_workers": int(value), the default on ValueError/TypeError
\* or when the key is missing; banner.run uses its argument or its default.
ParseMaxWorkers(k, raw) ==
    IF raw.tag = "int" THEN raw.val
    ELSE IF k = "port_scan" THEN DefaultMaxWorkers ELSE BannerDefaultMaxWorkers

\* _parse_config, "ports": a list is taken as it is, a 2-tuple becomes
\* list(range(start, end + 1)), and the default ports stay when int() rejects
\* a bound or the key is missing; banner.run: BANNER_PORTS when ports is None.
ParsePorts(k, raw) ==
    IF raw.tag = "list" THEN raw.list
    ELSE IF raw.tag = "range" THEN RangeList(raw.lo, raw.hi)
    ELSE IF k = "port_scan" THEN DEFAULT_PORTS ELSE BANNER_PORTS

\* ------------------------------------------------------------------- state
Init ==
    /\ kind \in Kinds
    /\ target \in Targets
    /\ ports \in SeqsUpTo(Ports, MaxPorts)
    /\ max_workers \in 0..MaxWorkers
    /\ timeout \in Timeouts
    /\ net \in [Ports -> ConnectResults]
    /\ \A p \in Ports \ Range(ports) : net[p] = "refused"
    /\ pc = "resolve"
    /\ resolved_ip = None
    /\ nsub = 0
    /\ queue = <<>>
    /\ nthreads = 0
    /\ idle = 0
    /\ status = [i \in Idx |-> "new"]
    /\ ret = [i \in Idx |-> None]
    /\ sock = [i \in Idx |-> "none"]
    /\ calls = [i \in Idx |-> 0]
    /\ collected = {}
    /\ results = <<>>
    /\ report = NoReport
    /\ interrupted = FALSE
    /\ config = NoConfig
    /\ probe = IdleProbe
    /\ first = NoFirst
    /\ resolves = 0
    /\ addr = [i \in Idx |-> None]
    /\ label = NoLabel
    /\ cli = NoCli

\* ------------------------------------------------------- the calling thread
\* Resolve with the early return on a failed resolution left out.
ResolveNoReturn ==
    /\ pc = "resolve"
    /\ \E ok \in (IF target \in Resolvable THEN BOOLEAN ELSE {FALSE}) :
        resolved_ip' = IF ok THEN ResolvedAddress ELSE None
    /\ pc' = "ctor"
    /\ resolves' = resolves + 1
    /\ UNCHANGED <<aux, inputs, nsub, pool, tasks, collected, results, report,
                   interrupted>>

\* resolved_ip = _resolve_target(target); a failure returns the error report.
Resolve ==
    /\ pc = "resolve"
    /\ \E ok \in (IF target \in Resolvable THEN BOOLEAN ELSE {FALSE}) :
        IF ok
        THEN /\ resolved_ip' = ResolvedAddress
             /\ pc' = "ctor"
             /\ UNCHANGED report
        ELSE /\ report' = ResolveFailureReport(target)
             /\ pc' = "done"
             /\ UNCHANGED resolved_ip
    /\ resolves' = resolves + 1
    /\ UNCHANGED <<aux, inputs, nsub, pool, tasks, collected, results,
                   interrupted>>

\* ThreadPoolExecutor(max_workers=...): ValueError for max_workers <= 0, which
\* run()'s "except Exception" turns into a report.
Construct ==
    /\ pc = "ctor"
    /\ IF max_workers <= 0
       THEN /\ report' = ExceptionReport(resolved_ip, results, MaxWorkersError)
            /\ pc' = "done"
       ELSE /\ pc' = "submit"
            /\ UNCHANGED report
    /\ UNCHANGED <<aux, inputs, resolved_ip, resolves, nsub, pool, tasks,
                   collected, results, interrupted>>

\* _adjust_thread_count without the max_workers test: a thread per submit.
AdjustUnbounded(n, sem, maxw) ==
    IF sem > 0 THEN <<n, sem - 1>> ELSE <<n + 1, sem>>

\* ThreadPoolExecutor._adjust_thread_count: reuse an idle thread if the
\* semaphore can be taken, else start a thread while fewer than max_workers
\* exist.  Gives <<threads, idle>> after the call.
_adjust_thread_count(n, sem, maxw) ==
    IF sem > 0 THEN <<n, sem - 1>>
    ELSE IF n < maxw THEN <<n + 1, sem>>
    ELSE <<n, sem>>

\* Submit that resolves the target anew for each port it submits.
SubmitResolving ==
    /\ pc = "submit"
    /\ nsub < Len(ports)
    /\ nsub' = nsub + 1
    /\ resolves' = resolves + 1
    /\ status' = [status EXCEPT ![nsub + 1] = "queued"]
    /\ addr' = [addr EXCEPT ![nsub + 1] = resolved_ip]
    /\ queue' = Append(queue, nsub + 1)
    /\ nthreads' = _adjust_thread_count(nthreads, idle, max_workers)[1]
    /\ idle' = _adjust_thread_count(nthreads, idle, max_workers)[2]
    /\ UNCHANGED <<aux, inputs, pc, resolved_ip, ret, sock, calls, collected,
                   results, report, interrupted>>

\* One iteration of the dict comprehension: executor.submit(probe, ...).
Submit ==
    /\ pc = "submit"
    /\ nsub < Len(ports)
    /\ nsub' = nsub + 1
    /\ status' = [status EXCEPT ![nsub + 1] = "queued"]
    /\ addr' = [addr EXCEPT ![nsub + 1] = resolved_ip]
    /\ queue' = Append(queue, nsub + 1)
    /\ nthreads' = _adjust_thread_count(nthreads, idle, max_workers)[1]
    /\ idle' = _adjust_thread_count(nthreads, idle, max_workers)[2]
    /\ UNCHANGED <<aux, inputs, pc, resolved_ip, resolves, ret, sock, calls,
                   collected, results, report, interrupted>>

\* BeginCollect when the comprehension may stop one element short.
BeginCollectShort ==
    /\ pc = "submit"
    /\ nsub >= Len(ports) - 1
    /\ pc' = "collect"
    /\ UNCHANGED <<aux, inputs, resolved_ip, resolves, nsub, pool, tasks,
                   collected, results, report, interrupted>>

\* The comprehension is exhausted: as_completed(future_to_port) starts.
BeginCollect ==
    /\ pc = "submit"
    /\ nsub = Len(ports)
    /\ pc' = "collect"
    /\ UNCHANGED <<aux, inputs, resolved_ip, resolves, nsub, pool, tasks,
                   collected, results, report, interrupted>>

\* Collect without the inner try/except: the exception of a raised probe
\* reaches run()'s "except Exception" and ends the run.
CollectNoCatch(i) ==
    /\ pc = "collect"
    /\ status[i] = "done"
    /\ i \notin collected
    /\ collected' = collected \cup {i}
    /\ results' = IF ret[i] = "value" THEN Append(results, ports[i]) ELSE results
    /\ IF ret[i] = "raised"
       THEN /\ report' = ExceptionReport(resolved_ip, results, "probe raised")
            /\ pc' = "done"
       ELSE UNCHANGED <<pc, report>>
    /\ UNCHANGED <<aux, inputs, resolved_ip, resolves, nsub, pool, tasks,
                   interrupted>>

\* Collect that appends an entry whatever the probe returned.
CollectEveryOutcome(i) ==
    /\ pc = "collect"
    /\ status[i] = "done"
    /\ i \notin collected
    /\ collected' = collected \cup {i}
    /\ results' = Append(results, ports[i])
    /\ UNCHANGED <<aux, inputs, pc, resolved_ip, resolves, nsub, pool, tasks,
                   report, interrupted>>

\* One iteration of "for future in as_completed(...)": any finished future not
\* yet yielded; a returned entry is appended, a raised exception is logged.
Collect(i) ==
    /\ pc = "collect"
    /\ status[i] = "done"
    /\ i \notin collected
    /\ collected' = collected \cup {i}
    /\ results' = IF ret[i] = "value" THEN Append(results, ports[i]) ELSE results
    /\ UNCHANGED <<aux, inputs, pc, resolved_ip, resolves, nsub, pool, tasks,
                   report, interrupted>>

\* ReturnReport without the sort.
ReturnUnsorted ==
    /\ pc = "collect"
    /\ collected = 1..nsub
    /\ report' = CompletedReport(resolved_ip, results)
    /\ pc' = "done"
    /\ UNCHANGED <<aux, inputs, resolved_ip, resolves, nsub, pool, tasks,
                   collected, results, interrupted>>

\* ReturnReport that also returns as soon as one open result was collected.
ReturnOnFirstOpen ==
    /\ pc = "collect"
    /\ (collected = 1..nsub \/ results # <<>>)
    /\ report' = CompletedReport(resolved_ip, SortByPort(results))
    /\ pc' = "done"
    /\ UNCHANGED <<aux, inputs, resolved_ip, resolves, nsub, pool, tasks,
                   collected, results, interrupted>>

\* as_completed is exhausted (every future of future_to_port was yielded), the
\* with block exits, the list is sorted and
\* the report returned.
ReturnReport ==
    /\ pc = "collect"
    /\ collected = 1..nsub
    /\ report' = CompletedReport(resolved_ip, SortByPort(results))
    /\ pc' = "done"
    /\ UNCHANGED <<aux, inputs, resolved_ip, resolves, nsub, pool, tasks,
                   collected, results, interrupted>>

\* KeyboardInterrupt raised in the calling thread inside run()'s try block:
\* before the executor exists, while submitting or while collecting.
Interrupt ==
    /\ pc \in {"ctor", "submit", "collect"}
    /\ pc' = "unwind"
    /\ interrupted' = TRUE
    /\ UNCHANGED <<aux, inputs, resolved_ip, resolves, nsub, pool, tasks,
                   collected, results, report>>

\* Unwind that does not wait for the pool: the report is built while submitted
\* probes are still queued or running.
UnwindNoWait ==
    /\ pc = "unwind"
    /\ report' = InterruptedReport(resolved_ip, results)
    /\ pc' = "done"
    /\ UNCHANGED <<aux, inputs, resolved_ip, resolves, nsub, pool, tasks,
                   collected, results, interrupted>>

\* The with block's __exit__ (if it was entered) is shutdown(wait=True): it
\* returns when every queued work item has run; then "except
\* KeyboardInterrupt" builds the report.
Unwind ==
    /\ pc = "unwind"
    /\ queue = <<>>
    /\ Running = {}
    /\ report' = InterruptedReport(resolved_ip, results)
    /\ pc' = "done"
    /\ UNCHANGED <<aux, inputs, resolved_ip, resolves, nsub, pool, tasks,
                   collected, results, interrupted>>

\* ------------------------------------------------------------ pool threads
\* A waiting pool thread takes the oldest work item and calls the probe.
WorkerStart ==
    /\ queue # <<>>
    /\ InFlight < nthreads
    /\ status' = [status EXCEPT ![Head(queue)] = "running"]
    /\ calls' = [calls EXCEPT ![Head(queue)] = @ + 1]
    /\ queue' = Tail(queue)
    /\ UNCHANGED <<aux, inputs, pc, resolved_ip, resolves, nsub, nthreads,
                   idle, ret, sock, addr, collected, results, report,
                   interrupted>>

\* WorkerFinish in which the pool thread itself appends its entry to the list.
WorkerFinishAppends(i) ==
    /\ status[i] = "running"
    /\ \E fault \in Faults, data \in BOOLEAN :
        /\ ret' = [ret EXCEPT
                     ![i] = Probe(kind, net[ports[i]], timeout, fault, data).ret]
        /\ sock' = [sock EXCEPT
                     ![i] = Probe(kind, net[ports[i]], timeout, fault, data).sock]
        /\ results' =
              IF Probe(kind, net[ports[i]], timeout, fault, data).ret = "value"
              THEN Append(results, ports[i]) ELSE results
    /\ status' = [status EXCEPT ![i] = "done"]
    /\ idle' = idle + 1
    /\ UNCHANGED <<aux, inputs, pc, resolved_ip, resolves, nsub, queue,
                   nthreads, calls, addr, collected, report, interrupted>>

\* The probe call ends; the future is set and the idle semaphore released.
WorkerFinish(i) ==
    /\ status[i] = "running"
    /\ \E fault \in Faults, data \in BOOLEAN :
        /\ ret' = [ret EXCEPT
                     ![i] = Probe(kind, net[ports[i]], timeout, fault, data).ret]
        /\ sock' = [sock EXCEPT
                     ![i] = Probe(kind, net[ports[i]], timeout, fault, data).sock]
    /\ status' = [status EXCEPT ![i] = "done"]
    /\ idle' = idle + 1
    /\ UNCHANGED <<aux, inputs, pc, resolved_ip, resolves, nsub, queue,
                   nthreads, calls, addr, collected, results, report,
                   interrupted>>

Main ==
    \/ Resolve
    \/ Construct
    \/ Submit
    \/ BeginCollect
    \/ \E i \in Idx : Collect(i)
    \/ ReturnReport
    \/ Unwind

Worker ==
    \/ WorkerStart
    \/ \E i \in Idx : WorkerFinish(i)

Next ==
    \/ Resolve
    \/ Construct
    \/ Submit
    \/ BeginCollect
    \/ \E i \in Idx : Collect(i)
    \/ ReturnReport
    \/ Interrupt
    \/ Unwind
    \/ WorkerStart
    \/ \E i \in Idx : WorkerFinish(i)

Spec == Init /\ [][Next]_vars

\* The calling thread and the pool threads keep running; only the interrupt
\* is left to the environment.
LiveSpec == Spec /\ WF_vars(Main) /\ WF_vars(Worker)

\* ------------------------------------------------- run() from its arguments
\* Values a caller can give for timeout (in half seconds) and max_workers, one
\* of them above the cap main.py applies to banner grabbing.
RawTimeouts == {Absent, Text, Number(-2), Number(0), Number(2)}
RawWorkers ==
    {Absent, Text, Number(BannerWorkerCap + 1)}
    \cup {Number(n) : n \in (-1)..MaxWorkers}
\* Port arguments: none, a list, a valid range, a reversed range, ranges with a
\* bound outside 1..65535, and a range whose bounds are not integers.
RawPorts ==
    {NoPorts, PortList(<<80, 443>>), PortRange(80, 81), PortRange(5, 1),
     PortRange(0, 1), PortRange(MaxPortNumber, MaxPortNumber + 1), TextRange}

\* The calls considered: through main.py ("cli": argparse has typed --timeout
\* and --workers) or direct ("api"); banner.run is called with typed
\* arguments and a list of ports.
RawConfigs(k) ==
    {c \in [via : {"cli", "api"}, timeout : RawTimeouts, ports : RawPorts,
            max_workers : RawWorkers] :
        /\ c.via = "cli" => c.timeout.tag # "text" /\ c.max_workers.tag # "text"
        /\ (k = "banner_grab" /\ c.via = "api") =>
              /\ c.timeout.tag # "text" /\ c.max_workers.tag # "text"
              /\ c.ports.tag \in {"absent", "list"}}

\* The state when run() is about to be called with config.
ConfigInit ==
    /\ kind \in Kinds
    /\ target \in Targets
    /\ config \in RawConfigs(kind)
    /\ ports = ParsePorts(kind, NoPorts)
    /\ max_workers = ParseMaxWorkers(kind, Absent)
    /\ timeout = ParseTimeout(kind, Absent)
    /\ net = [p \in Ports |-> "refused"]
    /\ pc = "parse"
    /\ resolved_ip = None
    /\ nsub = 0
    /\ queue = <<>>
    /\ nthreads = 0
    /\ idle = 0
    /\ status = [i \in Idx |-> "new"]
    /\ ret = [i \in Idx |-> None]
    /\ sock = [i \in Idx |-> "none"]
    /\ calls = [i \in Idx |-> 0]
    /\ collected = {}
    /\ results = <<>>
    /\ report = NoReport
    /\ interrupted = FALSE
    /\ probe = IdleProbe
    /\ first = NoFirst
    /\ resolves = 0
    /\ addr = [i \in Idx |-> None]
    /\ label = NoLabel
    /\ cli = NoCli

\* main.parse_ports: logging.error("Invalid port range ...") and sys.exit(1).
CliExit ==
    /\ pc = "parse"
    /\ CliRejects(config)
    /\ pc' = "exit"
    /\ UNCHANGED <<aux, inputs, resolved_ip, resolves, nsub, pool, tasks,
                   collected, results, report, interrupted>>

\* scan_config = _parse_config(config) in portscan run(); the argument
\* defaults and "ports = BANNER_PORTS" in banner run().
ParseConfig ==
    /\ pc = "parse"
    /\ ~CliRejects(config)
    /\ timeout' = ParseTimeout(kind, CliArgs(kind, config).timeout)
    /\ max_workers' = ParseMaxWorkers(kind, CliArgs(kind, config).max_workers)
    /\ ports' = ParsePorts(kind, CliArgs(kind, config).ports)
    /\ status' = [i \in 1..Len(ports') |-> "new"]
    /\ ret' = [i \in 1..Len(ports') |-> None]
    /\ sock' = [i \in 1..Len(ports') |-> "none"]
    /\ calls' = [i \in 1..Len(ports') |-> 0]
    /\ addr' = [i \in 1..Len(ports') |-> None]
    /\ pc' = "resolve"
    /\ UNCHANGED <<aux, kind, target, net, resolved_ip, resolves, nsub, pool,
                   collected, results, report, interrupted>>

\* run() up to the creation of the executor.
ConfigNext ==
    \/ CliExit
    \/ ParseConfig
    \/ Resolve
    \/ Construct

ConfigSpec == ConfigInit /\ [][ConfigNext]_vars

\* ------------------------------------------------ the same port scan twice
\* The port lists the scan is repeated over: the three ports in two orders, a
\* repeated port and a single port.
ScanPortLists == {<<80, 22, 443>>, <<443, 22, 80>>, <<80, 80>>, <<22>>}

\* Every probe of the run gave what the network answers for its port: the port
\* for an open one, None for the others, and no local fault came in between.
Clean ==
    \A i \in Idx :
        ret[i] = IF net[ports[i]] = "open" THEN "value" ELSE None

ScanInit ==
    /\ kind = "port_scan"
    /\ target = "example.com"
    /\ ports \in ScanPortLists
    /\ max_workers \in 1..MaxWorkers
    /\ timeout = 1
    /\ net \in [Ports -> ConnectResults]
    /\ \A p \in Ports \ Range(ports) : net[p] = "refused"
    /\ pc = "resolve"
    /\ resolved_ip = None
    /\ nsub = 0
    /\ queue = <<>>
    /\ nthreads = 0
    /\ idle = 0
    /\ status = [i \in Idx |-> "new"]
    /\ ret = [i \in Idx |-> None]
    /\ sock = [i \in Idx |-> "none"]
    /\ calls = [i \in Idx |-> 0]
    /\ collected = {}
    /\ results = <<>>
    /\ report = NoReport
    /\ interrupted = FALSE
    /\ config = NoConfig
    /\ probe = IdleProbe
    /\ first = NoFirst
    /\ resolves = 0
    /\ addr = [i \in Idx |-> None]
    /\ label = NoLabel
    /\ cli = NoCli

\* run() has returned a completed report and is called once more with the same
\* arguments, the network being what it was: every local of run() starts anew.
RunAgain ==
    /\ pc = "done"
    /\ ~first.returned
    /\ ~interrupted
    /\ report.error = NoError
    /\ first' = [returned |-> TRUE, results |-> report.results, clean |-> Clean]
    /\ pc' = "resolve"
    /\ resolved_ip' = None
    /\ nsub' = 0
    /\ queue' = <<>>
    /\ nthreads' = 0
    /\ idle' = 0
    /\ status' = [i \in Idx |-> "new"]
    /\ ret' = [i \in Idx |-> None]
    /\ sock' = [i \in Idx |-> "none"]
    /\ calls' = [i \in Idx |-> 0]
    /\ addr' = [i \in Idx |-> None]
    /\ resolves' = 0
    /\ collected' = {}
    /\ results' = <<>>
    /\ report' = NoReport
    /\ interrupted' = FALSE
    /\ UNCHANGED <<config, probe, label, cli, inputs>>

ScanNext ==
    \/ Next
    \/ RunAgain

ScanSpec == ScanInit /\ [][ScanNext]_vars

\* ------------------------------------------------- one probe call, in steps
\* Everything but the probe record: left alone while a probe call is followed.
run_state ==
    <<kind, target, ports, max_workers, timeout, net, pc, resolved_ip, nsub,
      queue, nthreads, idle, status, ret, sock, calls, collected, results,
      report, interrupted, resolves, addr>>
dispatch == <<run_state, config, first, label, cli>>

\* No run() is followed: its variables keep fixed values.
NoRun ==
    /\ kind = "port_scan"
    /\ target = "example.com"
    /\ ports = <<>>
    /\ max_workers = 1
    /\ timeout = 2
    /\ net = [p \in Ports |-> "refused"]
    /\ pc = "probe"
    /\ resolved_ip = ResolvedAddress
    /\ nsub = 0
    /\ queue = <<>>
    /\ nthreads = 0
    /\ idle = 0
    /\ status = <<>>
    /\ ret = <<>>
    /\ sock = <<>>
    /\ calls = <<>>
    /\ collected = {}
    /\ results = <<>>
    /\ report = NoReport
    /\ interrupted = FALSE
    /\ config = NoConfig
    /\ first = NoFirst
    /\ resolves = 0
    /\ addr = <<>>

\* sock.recv(1024)
RecvSize == 1024
\* banner[:500] if len(banner) > 500
BannerLimit == 500
\* the ports _grab_banner sends the HTTP HEAD request to
WebPorts == {80, 443, 8080, 8443}
\* characters str.strip() removes: tab, line feed, carriage return, space
Whitespace == {9, 10, 13, 32}
\* a byte that is not valid UTF-8, which decode(errors='ignore') drops
InvalidByte == 255

\* n bytes of letters, the i-th depending on i.
Letters(n) == [i \in 1..n |-> 65 + (i % 26)]

\* What the peer may have sent when recv is called: nothing (it closed the
\* connection), a bare line end, a short greeting, a greeting with an invalid
\* byte and padding, long ones around the 500 and 1024 limits, and a long one
\* with a space as its 500th character.
PeerData ==
    {<<>>, <<13, 10>>, <<83, 83, 72, 45, 50, 13, 10>>, <<32, 255, 72, 105, 32>>,
     Letters(BannerLimit), Letters(BannerLimit + 1), Letters(RecvSize + 6),
     Letters(BannerLimit - 1) \o <<32>> \o Letters(5)}

\* The outcomes of one sock.recv(1024): the data received, socket.timeout, or
\* another socket.error (connection reset).
RecvResults ==
    {[tag |-> "timeout", data |-> <<>>], [tag |-> "reset", data |-> <<>>]}
    \cup {[tag |-> "data", data |-> d] : d \in PeerData}

\* How long a blocking call on a socket with timeout tmo can take when it
\* completes: no time at all on a non-blocking socket, less than tmo otherwise.
Completes(tmo) == IF tmo = 0 THEN {0} ELSE 0..(tmo - 1)

\* How long sock.recv blocks for the outcome r: the whole timeout when it
\* raises socket.timeout. The timeout set by settimeout applies to each
\* blocking call of the socket anew.
RecvWaits(r, tmo) == IF r.tag = "timeout" THEN {tmo} ELSE Completes(tmo)

\* How long connect_ex blocks for the answer c: an errno may be the one of a
\* connect that timed out.
ConnectWaits(c, tmo) ==
    IF c = "errno" THEN Completes(tmo) \cup {tmo} ELSE Completes(tmo)

\* recv(1024): at most the first 1024 bytes.
Recv(d) == SubSeq(d, 1, Min(Len(d), RecvSize))

\* bytes.decode('utf-8', errors='ignore')
IsValidByte(b) == b # InvalidByte
Decode(d) == SelectSeq(d, IsValidByte)

\* str.strip()
RECURSIVE LStrip(_)
LStrip(s) ==
    IF s # <<>> /\ Head(s) \in Whitespace THEN LStrip(Tail(s)) ELSE s
RECURSIVE RStrip(_)
RStrip(s) ==
    IF s # <<>> /\ s[Len(s)] \in Whitespace
    THEN RStrip(SubSeq(s, 1, Len(s) - 1)) ELSE s
Strip(s) == RStrip(LStrip(s))

\* sock.recv(1024).decode('utf-8', errors='ignore').strip()
ReadBanner(d) == Strip(Decode(Recv(d)))

\* What a read is noted as: "timeout", "reset", or, for received data, "empty"
\* when nothing is left of it after decoding and stripping, else "data".
ReadTag(r) ==
    IF r.tag # "data" THEN r.tag
    ELSE IF ReadBanner(r.data) = <<>> THEN "empty" ELSE "data"

\* Truncate that keeps one character too many.
TruncateOffByOne(b) ==
    IF Len(b) > BannerLimit THEN SubSeq(b, 1, BannerLimit + 1) ELSE b

\* banner[:500] if len(banner) > 500 else banner
Truncate(b) == IF Len(b) > BannerLimit THEN SubSeq(b, 1, BannerLimit) ELSE b

\* HEAD condition without the port test.
ShouldSendHeadAnyPort(b, p) == b = <<>>

\* "if not banner and port in [80, 443, 8080, 8443]" (None and '' are both
\* written <<>>)
ShouldSendHead(b, p) == b = <<>> /\ p \in WebPorts

\* "if not banner" before the generic probe
ShouldSendNudge(b) == b = <<>>

\* The open test taking every errno connect_ex returns for success.
ConnectedAlways(c) == c # "raise"

\* "result == 0" / "result != 0" on connect_ex's result
Connected(c) == c = "ok"

\* The final test returning an entry whatever the banner.
HasBannerAlways(b) == TRUE

\* "if banner:" before the entry is returned
HasBanner(b) == b # <<>>

\* What connect_ex can give: 0 ("ok"), ECONNREFUSED ("refused"), another
\* errno ("errno": unreachable, timed out, in progress) or an exception
\* ("raise"); a socket with timeout 0 is non-blocking and never gives 0.
ConnectAnswers(tmo) ==
    IF tmo = 0 THEN {"errno", "raise"} ELSE {"ok", "refused", "errno", "raise"}

NoReturn == [tag |-> "pending", banner |-> <<>>]
NoPrev == [kind |-> "none", conn |-> "none", tag |-> "none", silent |-> FALSE]

\* The ports and timeouts (in half seconds) a single probe is followed with.
ProbePorts == {22, 80, 8443}
ProbeTimeouts == {-2, 0, 2}

\* A probe call at its first statement; steps counts the capture steps (passive
\* read, HTTP step, generic step) the call has gone through, sent lists what
\* it has sent to the peer, reads what each recv gave, elapsed the time the
\* call has spent blocked in connect_ex and recv.
ProbeStart(k, p, t, pv) ==
    [pc |-> "socket", kind |-> k, port |-> p, timeout |-> t, sock |-> "none",
     conn |-> "none", banner |-> <<>>, sent |-> <<>>, steps |-> 0,
     reads |-> <<>>, elapsed |-> 0, ret |-> NoReturn, prev |-> pv]

ProbeInit ==
    /\ kind = "port_scan"
    /\ target = "example.com"
    /\ ports = <<>>
    /\ max_workers = 1
    /\ timeout = 2
    /\ net = [p \in Ports |-> "refused"]
    /\ pc = "probe"
    /\ resolved_ip = ResolvedAddress
    /\ nsub = 0
    /\ queue = <<>>
    /\ nthreads = 0
    /\ idle = 0
    /\ status = <<>>
    /\ ret = <<>>
    /\ sock = <<>>
    /\ calls = <<>>
    /\ collected = {}
    /\ results = <<>>
    /\ report = NoReport
    /\ interrupted = FALSE
    /\ config = NoConfig
    /\ first = NoFirst
    /\ resolves = 0
    /\ addr = [i \in Idx |-> None]
    /\ label = NoLabel
    /\ cli = NoCli
    /\ probe \in {ProbeStart(k, p, t, NoPrev) :
                    k \in Kinds, p \in ProbePorts, t \in ProbeTimeouts}

\* The probe returns (tag "value" or "none"): the finally clause closes the
\* socket first.
Returned(tag, b) ==
    [probe EXCEPT !.pc = "returned", !.sock = "closed",
                  !.ret = [tag |-> tag, banner |-> b]]

\* sock = socket.socket(AF_INET, SOCK_STREAM), before the try: an OSError
\* leaves the function.
probe_socket ==
    /\ probe.pc = "socket"
    /\ \E ok \in BOOLEAN :
        probe' = IF ok
                 THEN [probe EXCEPT !.pc = "settimeout", !.sock = "open"]
                 ELSE [probe EXCEPT !.pc = "raised",
                                    !.ret = [tag |-> "raised", banner |-> <<>>]]
    /\ UNCHANGED dispatch

\* sock.settimeout(timeout), before the try: ValueError for a negative value
\* leaves the function with the socket open.
probe_settimeout ==
    /\ probe.pc = "settimeout"
    /\ probe' = IF probe.timeout < 0
                THEN [probe EXCEPT !.pc = "raised",
                                   !.ret = [tag |-> "raised", banner |-> <<>>]]
                ELSE [probe EXCEPT !.pc = "connect"]
    /\ UNCHANGED dispatch

\* result = sock.connect_ex((ip, port)) and the test on it; an exception is
\* caught by the except clauses, which return None.
probe_connect ==
    /\ probe.pc = "connect"
    /\ \E c \in ConnectAnswers(probe.timeout) :
       \E w \in ConnectWaits(c, probe.timeout) :
        probe' =
            IF c = "raise" \/ ~Connected(c)
            THEN [Returned("none", <<>>) EXCEPT !.conn = c, !.elapsed = @ + w]
            ELSE IF probe.kind = "port_scan"
            THEN [Returned("value", <<>>) EXCEPT !.conn = c, !.elapsed = @ + w]
            ELSE [probe EXCEPT !.pc = "recv1", !.conn = c, !.elapsed = @ + w]
    /\ UNCHANGED dispatch

\* The passive read with every exception of the read swallowed.
probe_recv1CatchAll ==
    /\ probe.pc = "recv1"
    /\ \E r \in RecvResults :
       \E w \in RecvWaits(r, probe.timeout) :
        probe' =
            [probe EXCEPT !.pc = "head", !.steps = 1,
                          !.reads = Append(@, ReadTag(r)),
                          !.elapsed = @ + w,
                          !.banner = IF r.tag = "data"
                                     THEN ReadBanner(r.data) ELSE @]
    /\ UNCHANGED dispatch

\* The passive read: only socket.timeout is caught here; another socket.error
\* reaches the outer except clause, which returns None.
probe_recv1 ==
    /\ probe.pc = "recv1"
    /\ \E r \in RecvResults :
       \E w \in RecvWaits(r, probe.timeout) :
        probe' =
            IF r.tag = "reset"
            THEN [Returned("none", <<>>) EXCEPT
                    !.reads = Append(@, ReadTag(r)), !.elapsed = @ + w]
            ELSE [probe EXCEPT !.pc = "head", !.steps = 1,
                               !.reads = Append(@, ReadTag(r)),
                               !.elapsed = @ + w,
                               !.banner = IF r.tag = "data"
                                          THEN ReadBanner(r.data) ELSE @]
    /\ UNCHANGED dispatch

\* The HTTP step: send the HEAD request and read again; any exception of the
\* send or the read is swallowed.
probe_head ==
    /\ probe.pc = "head"
    /\ IF ShouldSendHead(probe.banner, probe.port)
       THEN \E sendok \in BOOLEAN, r \in RecvResults :
            \E w \in RecvWaits(r, probe.timeout) :
              probe' =
                  IF ~sendok THEN [probe EXCEPT !.pc = "nudge", !.steps = 2]
                  ELSE [probe EXCEPT
                          !.pc = "nudge", !.steps = 2,
                          !.sent = Append(@, "HEAD"),
                          !.reads = Append(@, ReadTag(r)),
                          !.elapsed = @ + w,
                          !.banner = IF r.tag = "data"
                                     THEN ReadBanner(r.data) ELSE @]
       ELSE probe' = [probe EXCEPT !.pc = "nudge", !.steps = 2]
    /\ UNCHANGED dispatch

\* The generic step: send a bare line end and read again; any exception is
\* swallowed.
probe_nudge ==
    /\ probe.pc = "nudge"
    /\ IF ShouldSendNudge(probe.banner)
       THEN \E sendok \in BOOLEAN, r \in RecvResults :
            \E w \in RecvWaits(r, probe.timeout) :
              probe' =
                  IF ~sendok THEN [probe EXCEPT !.pc = "finish", !.steps = 3]
                  ELSE [probe EXCEPT
                          !.pc = "finish", !.steps = 3,
                          !.sent = Append(@, "NUDGE"),
                          !.reads = Append(@, ReadTag(r)),
                          !.elapsed = @ + w,
                          !.banner = IF r.tag = "data"
                                     THEN ReadBanner(r.data) ELSE @]
       ELSE probe' = [probe EXCEPT !.pc = "finish", !.steps = 3]
    /\ UNCHANGED dispatch

\* "if banner:": the entry with the banner cut to 500 characters, else None.
probe_finish ==
    /\ probe.pc = "finish"
    /\ probe' = IF HasBanner(probe.banner)
                THEN Returned("value", Truncate(probe.banner))
                ELSE Returned("none", <<>>)
    /\ UNCHANGED dispatch

\* The same port is probed once more, by either probe function (the port scan
\* and the banner scan are separate runs over the same ports).
probe_again ==
    /\ probe.pc \in {"returned", "raised"}
    /\ probe.prev = NoPrev
    /\ \E k \in Kinds :
        probe' = ProbeStart(k, probe.port, probe.timeout,
                            [kind |-> probe.kind, conn |-> probe.conn,
                             tag |-> probe.ret.tag,
                             silent |-> /\ probe.kind = "banner_grab"
                                        /\ probe.conn = "ok"
                                        /\ probe.pc = "returned"
                                        /\ probe.steps = 3
                                        /\ probe.banner = <<>>])
    /\ UNCHANGED dispatch

ProbeNext ==
    \/ probe_socket
    \/ probe_settimeout
    \/ probe_connect
    \/ probe_recv1
    \/ probe_head
    \/ probe_nudge
    \/ probe_finish
    \/ probe_again

ProbeSpec == ProbeInit /\ [][ProbeNext]_vars

\* ------------------------------------------------------- service labels
\* Character codes of the lower-case letters and the hyphen.
Alphabet ==
    <<"a", "b", "c", "d", "e", "f", "g", "h", "i", "j", "k", "l", "m", "n", "o",
      "p", "q", "r", "s", "t", "u", "v", "w", "x", "y", "z">>
Ord(c) == IF c = "-" THEN 45 ELSE 96 + (CHOOSE i \in 1..26 : Alphabet[i] = c)

\* The text whose characters are the one-letter strings of w.
Word(w) == [i \in DOMAIN w |-> Ord(w[i])]

\* str.lower() and str.upper() on the letters A-Z / a-z
Lower(t) == [i \in DOMAIN t |-> IF t[i] \in 65..90 THEN t[i] + 32 ELSE t[i]]
Upper(t) == [i \in DOMAIN t |-> IF t[i] \in 97..122 THEN t[i] - 32 ELSE t[i]]

\* "pat in text"
Contains(text, pat) ==
    \E i \in 0..(Len(text) - Len(pat)) : SubSeq(text, i + 1, i + Len(pat)) = pat

W_apache == Word(<<"a", "p", "a", "c", "h", "e">>)
W_nginx == Word(<<"n", "g", "i", "n", "x">>)
W_microsoft_iis ==
    Word(<<"m", "i", "c", "r", "o", "s", "o", "f", "t", "-", "i", "i", "s">>)
W_iis == Word(<<"i", "i", "s">>)
W_lighttpd == Word(<<"l", "i", "g", "h", "t", "t", "p", "d">>)
W_ssh == Word(<<"s", "s", "h">>)
W_openssh == Word(<<"o", "p", "e", "n", "s", "s", "h">>)
W_ftp == Word(<<"f", "t", "p">>)
W_vsftpd == Word(<<"v", "s", "f", "t", "p", "d">>)
W_proftpd == Word(<<"p", "r", "o", "f", "t", "p", "d">>)
W_smtp == Word(<<"s", "m", "t", "p">>)
W_mail == Word(<<"m", "a", "i", "l">>)
W_postfix == Word(<<"p", "o", "s", "t", "f", "i", "x">>)
W_exim == Word(<<"e", "x", "i", "m">>)
W_mysql == Word(<<"m", "y", "s", "q", "l">>)
W_postgresql ==
    Word(<<"p", "o", "s", "t", "g", "r", "e", "s", "q", "l">>)
W_postgres == Word(<<"p", "o", "s", "t", "g", "r", "e", "s">>)
W_redis == Word(<<"r", "e", "d", "i", "s">>)
W_mongodb == Word(<<"m", "o", "n", "g", "o", "d", "b">>)
W_mongo == Word(<<"m", "o", "n", "g", "o">>)
W_hello == Word(<<"h", "e", "l", "l", "o">>)

\* port_hints of _identify_service
port_hints ==
    21 :> "FTP" @@ 22 :> "SSH" @@ 25 :> "SMTP" @@ 80 :> "HTTP" @@ 110 :> "POP3"
    @@ 143 :> "IMAP" @@ 443 :> "HTTPS" @@ 3306 :> "MySQL"
    @@ 5432 :> "PostgreSQL" @@ 6379 :> "Redis" @@ 8080 :> "HTTP-Proxy"

SERVICE_MAP ==
    20 :> "ftp-data" @@ 21 :> "ftp" @@ 22 :> "ssh" @@ 23 :> "telnet"
    @@ 25 :> "smtp" @@ 53 :> "dns" @@ 80 :> "http" @@ 110 :> "pop3"
    @@ 143 :> "imap" @@ 443 :> "https" @@ 465 :> "smtps"
    @@ 587 :> "smtp-submission" @@ 993 :> "imaps" @@ 995 :> "pop3s"
    @@ 3306 :> "mysql" @@ 3389 :> "rdp" @@ 5432 :> "postgresql"
    @@ 5900 :> "vnc" @@ 6379 :> "redis" @@ 8080 :> "http-proxy"
    @@ 8443 :> "https-alt" @@ 27017 :> "mongodb"

\* dict.get that gives the key-less default for every key.
GetDefaultOnly(d, k, default) == default

\* dict.get(k, default)
Get(d, k, default) == IF k \in DOMAIN d THEN d[k] ELSE default

\* _identify_service(banner, port): the if/elif chain over banner.lower().
_identify_service(banner, port) ==
    LET b == Lower(banner)
    IN  IF Contains(b, W_apache) THEN "Apache HTTP Server"
        ELSE IF Contains(b, W_nginx) THEN "Nginx"
        ELSE IF Contains(b, W_microsoft_iis) \/ Contains(b, W_iis)
        THEN "Microsoft IIS"
        ELSE IF Contains(b, W_lighttpd) THEN "lighttpd"
        ELSE IF Contains(b, W_ssh)
        THEN IF Contains(b, W_openssh) THEN "OpenSSH" ELSE "SSH Server"
        ELSE IF Contains(b, W_ftp)
        THEN IF Contains(b, W_vsftpd) THEN "vsftpd"
             ELSE IF Contains(b, W_proftpd) THEN "ProFTPD"
             ELSE "FTP Server"
        ELSE IF Contains(b, W_smtp) \/ Contains(b, W_mail)
        THEN IF Contains(b, W_postfix) THEN "Postfix"
             ELSE IF Contains(b, W_exim) THEN "Exim"
             ELSE "Mail Server"
        ELSE IF Contains(b, W_mysql) THEN "MySQL"
        ELSE IF Contains(b, W_postgresql) \/ Contains(b, W_postgres)
        THEN "PostgreSQL"
        ELSE IF Contains(b, W_redis) THEN "Redis"
        ELSE IF Contains(b, W_mongodb) \/ Contains(b, W_mongo) THEN "MongoDB"
        ELSE Get(port_hints, port, "Unknown")

\* _get_service_name(port)
_get_service_name(port) == Get(SERVICE_MAP, port, "unknown")

\* The words banners are made of here: every pattern of _identify_service and
\* a word that holds none of them.
LabelWords ==
    {W_apache, W_nginx, W_microsoft_iis, W_iis, W_lighttpd, W_ssh, W_openssh,
     W_ftp, W_vsftpd, W_proftpd, W_smtp, W_mail, W_postfix, W_exim, W_mysql,
     W_postgresql, W_postgres, W_redis, W_mongodb, W_mongo, W_hello}

\* Banners of one word, or of two words with a space between, the first word
\* in lower or in upper case.
LabelBanners ==
    LET firsts == LabelWords \cup {Upper(w) : w \in LabelWords}
    IN  firsts \cup {a \o <<32>> \o b : a \in firsts, b \in LabelWords}

\* Ports: in both tables, in SERVICE_MAP only, in neither.
LabelPorts == {22, 25, 80, 8443, 9999}

LabelInit ==
    /\ NoRun
    /\ probe = IdleProbe
    /\ cli = NoCli
    /\ label \in
         {[pc |-> "call", fn |-> "_identify_service", banner |-> b,
           port |-> p, out |-> None] : b \in LabelBanners, p \in LabelPorts}
         \cup {[pc |-> "call", fn |-> "_get_service_name", banner |-> <<>>,
                port |-> p, out |-> None] : p \in LabelPorts}

\* banner.py:73 "service": _identify_service(banner, port)
call_identify_service ==
    /\ label.pc = "call"
    /\ label.fn = "_identify_service"
    /\ label' = [label EXCEPT
                   !.pc = "done",
                   !.out = _identify_service(label.banner, label.port)]
    /\ UNCHANGED <<run_state, config, first, probe, cli>>

\* portscan_module.py:229 "service": _get_service_name(result)
call_get_service_name ==
    /\ label.pc = "call"
    /\ label.fn = "_get_service_name"
    /\ label' = [label EXCEPT !.pc = "done",
                              !.out = _get_service_name(label.port)]
    /\ UNCHANGED <<run_state, config, first, probe, cli>>

LabelNext ==
    \/ call_identify_service
    \/ call_get_service_name

LabelSpec == LabelInit /\ [][LabelNext]_vars

\* ------------------------------------------------------------------- main()
\* main.py:648-657 the order in which main() appends the selected modules.
ModuleOrder == <<"portscan", "subdomains", "dns", "whois", "banner">>

ModuleNames == {ModuleOrder[i] : i \in 1..Len(ModuleOrder)}

\* main.py:725-731 the key of each module's report in all_results.
module_key_map ==
    ("portscan" :> "port_scan") @@ ("subdomains" :> "subdomain_enum")
    @@ ("dns" :> "dns_enum") @@ ("whois" :> "whois_lookup")
    @@ ("banner" :> "banner_grab")

\* main.py:648-661 modules_to_run for the set of module flags given (--all is
\* every flag); with no flag the port scan alone.
modules_to_run(flags) ==
    LET chosen == SelectSeq(ModuleOrder, LAMBDA m : m \in flags)
    IN  IF chosen = <<>> THEN <<"portscan">> ELSE chosen

\* What validator.run(args) reports in "valid": the input validation passes
\* or fails before any network activity.
run_validation == BOOLEAN

\* main() at its entry: flags are the module flags of the command line,
\* ports_ok is whether parse_ports accepts args.ports.
MainStart(flags, ports_ok) ==
    [pc |-> "validate", modules |-> modules_to_run(flags),
     ports_ok |-> ports_ok, k |-> 1, has_error |-> FALSE, all_results |-> {},
     saved |-> FALSE, saved_path |-> FALSE, printed |-> {}, absorbed |-> {},
     raised |-> FALSE, code |-> None]

MainInit ==
    /\ NoRun
    /\ probe = IdleProbe
    /\ label = NoLabel
    /\ cli \in {MainStart(flags, ok) : flags \in SUBSET ModuleNames,
                                        ok \in BOOLEAN}

\* How a module's wrapper can end, seen from main()'s loop:
\*   "ok"        a report without "error";
\*   "error"     a report with "error" (a failed resolution, an exception the
\*               module or its wrapper caught);
\*   "absorbed"  portscan.run / banner.run caught KeyboardInterrupt inside
\*               their try and returned the partial report with "error"
\*               (portscan_module.py:248-258, banner.py:272-282);
\*   "exception" an Exception leaves the wrapper (run_portscan has no try);
\*   "interrupt" KeyboardInterrupt leaves the wrapper (raised outside the
\*               module's try, or in a module that does not catch it);
\*   "exit"      parse_ports calls sys.exit(1) on a malformed args.ports.
ModuleOutcomes(m, ports_ok) ==
    IF m \in {"portscan", "banner"} /\ ~ports_ok
    THEN {"exit"}
    ELSE {"ok", "error", "interrupt"}
         \cup (IF m \in {"portscan", "banner"} THEN {"absorbed"} ELSE {})
         \cup (IF m = "portscan" THEN {"exception"} ELSE {})

\* The loop body that never looks for "error" in the module's report.
RunModuleIgnoresError(c, o) ==
    LET key  == module_key_map[c.modules[c.k]]
        next == [c EXCEPT !.k = c.k + 1,
                          !.pc = IF c.k = Len(c.modules) THEN "save"
                                                         ELSE "loop"]
    IN  CASE o = "ok"        -> [next EXCEPT !.all_results = @ \cup {key}]
          [] o = "error"     -> [next EXCEPT !.all_results = @ \cup {key}]
          [] o = "absorbed"  -> [next EXCEPT !.all_results = @ \cup {key},
                                             !.absorbed = @ \cup
                                                            {c.modules[c.k]}]
          [] o = "exception" -> [next EXCEPT !.has_error = TRUE]
          [] o = "interrupt" -> [c EXCEPT !.pc = "exit", !.raised = TRUE,
                                          !.code = 130]
          [] o = "exit"      -> [c EXCEPT !.pc = "exit", !.code = 1]

\* main.py:680-712 one pass of the module loop with the wrapper ending in o:
\* the report goes into all_results and sets has_error when it has "error";
\* an Exception sets has_error; KeyboardInterrupt is re-raised to the outer
\* handler (exit code 130); SystemExit leaves main().
RunModule(c, o) ==
    LET m    == c.modules[c.k]
        key  == module_key_map[m]
        next == [c EXCEPT !.k = c.k + 1,
                          !.pc = IF c.k = Len(c.modules) THEN "save"
                                                         ELSE "loop"]
    IN  CASE o = "ok"        -> [next EXCEPT !.all_results = @ \cup {key}]
          [] o = "error"     -> [next EXCEPT !.all_results = @ \cup {key},
                                             !.has_error = TRUE]
          [] o = "absorbed"  -> [next EXCEPT !.all_results = @ \cup {key},
                                             !.has_error = TRUE,
                                             !.absorbed = @ \cup {m}]
          [] o = "exception" -> [next EXCEPT !.has_error = TRUE]
          [] o = "interrupt" -> [c EXCEPT !.pc = "exit", !.raised = TRUE,
                                          !.code = 130]
          [] o = "exit"      -> [c EXCEPT !.pc = "exit", !.code = 1]

\* main.py:670-676 validation: a failed validation prints it and exits with 1.
main_validate ==
    /\ cli.pc = "validate"
    /\ \E valid \in run_validation :
         cli' = IF valid
                THEN [cli EXCEPT !.pc = "loop",
                                 !.all_results = {"validation"}]
                ELSE [cli EXCEPT !.pc = "exit", !.code = 1,
                                 !.all_results = {"validation"},
                                 !.printed = {"validation"}]
    /\ UNCHANGED <<run_state, config, first, probe, label>>

\* main.py:680-712
main_module ==
    /\ cli.pc = "loop"
    /\ \E o \in ModuleOutcomes(cli.modules[cli.k], cli.ports_ok) :
         cli' = RunModule(cli, o)
    /\ UNCHANGED <<run_state, config, first, probe, label>>

\* main.py:714-723 save_results: a path, None when writing fails, or
\* KeyboardInterrupt to the outer handler.
main_save ==
    /\ cli.pc = "save"
    /\ \E o \in {"path", "none", "interrupt"} :
         cli' = IF o = "interrupt"
                THEN [cli EXCEPT !.pc = "exit", !.raised = TRUE, !.code = 130]
                ELSE [cli EXCEPT !.pc = "print", !.saved = TRUE,
                                 !.saved_path = (o = "path")]
    /\ UNCHANGED <<run_state, config, first, probe, label>>

\* main.py:725-742 print the report of every module that has one.
main_print ==
    /\ cli.pc = "print"
    /\ \E o \in {"printed", "interrupt"} :
         cli' = IF o = "interrupt"
                THEN [cli EXCEPT !.pc = "exit", !.raised = TRUE, !.code = 130]
                ELSE [cli EXCEPT
                        !.pc = "check",
                        !.printed =
                           {module_key_map[cli.modules[i]] :
                              i \in 1..Len(cli.modules)} \cap cli.all_results]
    /\ UNCHANGED <<run_state, config, first, probe, label>>

\* main.py:745-747 sys.exit(1) when has_error, else main() returns (code 0).
main_exit ==
    /\ cli.pc = "check"
    /\ cli' = [cli EXCEPT !.pc = "exit",
                          !.code = IF cli.has_error THEN 1 ELSE 0]
    /\ UNCHANGED <<run_state, config, first, probe, label>>

MainNext ==
    \/ main_validate
    \/ main_module
    \/ main_save
    \/ main_print
    \/ main_exit

MainSpec == MainInit /\ [][MainNext]_vars

\* ------------------------------------------------------------------ claims
StrictlyAscending(s) == \A i \in 1..(Len(s) - 1) : s[i] < s[i + 1]

\* Indices whose probe returned an entry (an open port / a captured banner).
Opened == {i \in Idx : ret[i] = "value"}

\* The sequence res holds exactly the entries of the probes in S.
HoldsExactly(res, S) ==
    \A p \in Ports : Count(res, p) = Cardinality({i \in S : ports[i] = p})

\* C1: during a dispatch the number of probes started and not yet returned
\* never exceeds max_workers, for every port list and every max_workers >= 1.
C1_InFlightBound == max_workers >= 1 => InFlight <= max_workers

\* C1 witness: all max_workers threads are busy while further probes wait.
C1_Witness == max_workers >= 1 /\ InFlight = max_workers /\ queue # <<>>

\* C2: every returned report (completed, interrupted or failed) lists its
\* results strictly ascending by port.
C2_StrictlyAscending == report.returned => StrictlyAscending(report.results)

\* C3: every returned report holds each port at most once, so its result list
\* is no longer than the number of distinct ports requested.
C3_NoDuplicatePorts ==
    report.returned =>
        /\ \A p \in Ports : Count(report.results, p) <= 1
        /\ Len(report.results) <= Cardinality(Range(ports))

\* C4: when resolution fails the report has resolved_ip null, an empty result
\* list and the error "Failed to resolve target: <target>", and no probe is
\* submitted or run; nothing is ever submitted without a resolved address.
C4_ResolutionFailure ==
    /\ (pc = "done" /\ resolved_ip = None) =>
          /\ report.returned
          /\ report.resolved_ip = None
          /\ report.results = <<>>
          /\ report.error = "Failed to resolve target: " \o target
    /\ resolved_ip = None =>
          /\ nsub = 0 /\ nthreads = 0
          /\ \A i \in Idx : calls[i] = 0 /\ status[i] = "new"

\* C4 witness: a run with ports to probe has ended on a failed resolution.
C4_Witness == pc = "done" /\ resolved_ip = None /\ Len(ports) = MaxPorts

\* C5 as stated: a report with the error field present has an empty result list.
C5_ErrorMeansEmpty ==
    (report.returned /\ report.error # NoError) => report.results = <<>>

\* C5 amended: a report whose error field is present and is not the
\* interruption marker has an empty result list.
C5_ErrorNotInterruptMeansEmpty ==
    (report.returned /\ report.error \notin {NoError, InterruptedError}) =>
        report.results = <<>>

\* C5 witness: an error report other than the interrupted one, for a run that
\* was asked to probe open ports.
C5_Witness ==
    /\ report.returned
    /\ report.error = MaxWorkersError
    /\ \E i \in Idx : net[ports[i]] = "open"

\* C6: the report of an interrupted run carries the marker "Scan interrupted
\* by user" and holds exactly the entries collected before the interruption.
C6_InterruptKeepsCollected ==
    (pc = "done" /\ interrupted) =>
        /\ report.returned
        /\ report.error = InterruptedError
        /\ HoldsExactly(report.results, collected \cap Opened)

\* C6 witness: an interrupted run returned after collecting open results while
\* other probes were not collected.
C6_Witness ==
    /\ pc = "done" /\ interrupted
    /\ collected \cap Opened # {}
    /\ collected # Idx

\* C7: an uninterrupted dispatch returns only when every submitted probe has
\* produced an outcome and was collected (an open port ends nothing early),
\* and every run eventually returns when each probe returns.
C7_ReturnsAfterAllOutcomes ==
    /\ [](((pc = "done" /\ ~interrupted /\ resolved_ip # None /\ max_workers >= 1) =>
            /\ nsub = Len(ports)
            /\ \A i \in Idx : status[i] = "done" /\ i \in collected))
    /\ <>(pc = "done")

\* C7 witness: a completed run in which an open port was found and a later
\* port of the list was still probed.
C7_Witness ==
    /\ pc = "done" /\ ~interrupted /\ report.error = NoError
    /\ Len(ports) >= 2
    /\ ret[1] = "value"
    /\ status[Len(ports)] = "done"

C9_ProbeFaultIsolated ==
    (pc = "done" /\ ~interrupted /\ (\E i \in Idx : ret[i] = "raised")) =>
        /\ report.returned
        /\ report.error = NoError
        /\ \A i \in Idx : status[i] = "done"
        /\ HoldsExactly(report.results, Opened)

\* C9 witness: a completed run in which one probe raised and a sibling
\* returned an entry.
C9_Witness ==
    /\ pc = "done" /\ ~interrupted
    /\ \E i, j \in Idx : ret[i] = "raised" /\ ret[j] = "value"

\* C10: every socket a probe created is closed when the probe call ends, on
\* every exit path, including an exception raised by settimeout.
C10_SocketClosed == \A i \in Idx : status[i] = "done" => sock[i] # "open"

\* C11: a probe call never ends with an exception leaving the function: every
\* failure, a failed socket() and a rejected timeout included, ends in a
\* returned value.
C11_ProbeNeverRaises == probe.pc # "raised"

C13_OpenPortsExactly ==
    (/\ pc = "done" /\ kind = "port_scan" /\ ~interrupted
     /\ report.error = NoError) =>
        /\ \A p \in Ports :
              (\E k \in DOMAIN report.results : report.results[k] = p)
                  <=> (\E i \in Idx : ports[i] = p /\ ret[i] = "value")
        /\ Len(report.results) = Cardinality(Opened)
        /\ \A p \in Ports :
              Count(report.results, p) <= Cardinality({i \in Idx : ports[i] = p})
        /\ (ports = <<80, 22, 443>> /\ ret = <<"value", None, "value">>) =>
              report.results = <<80, 443>>

\* C13 witness: the scan of [80, 22, 443] with 22 refused and the other two
\* open has completed.
C13_Witness ==
    /\ pc = "done" /\ ~interrupted /\ report.error = NoError
    /\ ports = <<80, 22, 443>> /\ ret = <<"value", None, "value">>
    /\ net[22] = "refused"

\* C19: two completed port scans of the same target and ports, in both of
\* which every probe gave what the unchanged network answers for its port,
\* report the same open ports in the same order, whatever the interleaving.
C19_SameReportTwice ==
    (/\ first.returned /\ first.clean
     /\ pc = "done" /\ ~interrupted /\ report.error = NoError /\ Clean) =>
        report.results = first.results

\* C19 witness: both runs completed over two open ports submitted in
\* descending order with more than one worker.
C19_Witness ==
    /\ first.returned /\ first.clean
    /\ pc = "done" /\ ~interrupted /\ report.error = NoError /\ Clean
    /\ ports = <<443, 22, 80>> /\ net[443] = "open" /\ net[80] = "open"
    /\ max_workers > 1 /\ Len(report.results) = 2

\* C14: a banner entry holds at most 500 characters, and a captured banner
\* longer than that is returned as exactly its first 500 characters.
C14_BannerTruncated ==
    (/\ probe.pc = "returned" /\ probe.kind = "banner_grab"
     /\ probe.ret.tag = "value") =>
        /\ Len(probe.ret.banner) <= BannerLimit
        /\ Len(probe.banner) > BannerLimit =>
              /\ Len(probe.ret.banner) = BannerLimit
              /\ \A i \in 1..BannerLimit : probe.ret.banner[i] = probe.banner[i]
        /\ Len(probe.banner) <= BannerLimit => probe.ret.banner = probe.banner

\* C14 witness: a banner of more than 500 characters was captured and returned.
C14_Witness ==
    /\ probe.pc = "returned" /\ probe.kind = "banner_grab"
    /\ probe.ret.tag = "value" /\ Len(probe.banner) > BannerLimit

\* C15: an open port that gave no data in the passive read, the HTTP step and
\* the generic step gets no banner entry, while the port-check probe of the
\* same port, connecting as well, returns it as open.
C15_SilentOpenPort ==
    /\ (/\ probe.pc = "returned" /\ probe.kind = "banner_grab"
        /\ probe.conn = "ok" /\ probe.steps = 3 /\ probe.banner = <<>>) =>
           probe.ret.tag = "none"
    /\ (/\ probe.pc = "returned" /\ probe.kind = "port_scan"
        /\ probe.conn = "ok" /\ probe.prev.silent) =>
           probe.prev.tag = "none" /\ probe.ret.tag = "value"

\* C15 witness: the banner probe found the open port silent and the port-check
\* probe of the same port has returned.
C15_Witness ==
    /\ probe.pc = "returned" /\ probe.kind = "port_scan"
    /\ probe.conn = "ok" /\ probe.prev.silent

\* C20: the banner probe sends the HEAD request only after a passive read that
\* gave no banner, on a web port, and before anything else; it sends the bare
\* line end only after the HTTP step, while there is still no banner; and it
\* sends nothing once it holds a banner.
C20_StepsInOrder ==
    [][(probe.pc \in {"recv1", "head", "nudge", "finish"}
        /\ probe'.sent # probe.sent) =>
          /\ probe.banner = <<>>
          /\ \/ /\ probe'.sent = Append(probe.sent, "HEAD")
                /\ probe.steps = 1 /\ probe.sent = <<>>
                /\ probe.port \in WebPorts
             \/ /\ probe'.sent = Append(probe.sent, "NUDGE")
                /\ probe.steps = 2]_vars

\* C20 witness: both requests were sent, the HEAD request first.
C20_Witness == probe.pc = "returned" /\ probe.sent = <<"HEAD", "NUDGE">>

\* C21: a banner entry never starts or ends with a whitespace character,
\* whether or not it was cut to 500 characters.
C21_NoSurroundingWhitespace ==
    (/\ probe.pc = "returned" /\ probe.kind = "banner_grab"
     /\ probe.ret.tag = "value") =>
        /\ probe.ret.banner # <<>>
        /\ Head(probe.ret.banner) \notin Whitespace
        /\ probe.ret.banner[Len(probe.ret.banner)] \notin Whitespace

\* C26: the time a banner probe spends blocked, in the connect and the reads
\* together, never exceeds its timeout.
C26_WithinOneTimeout ==
    (probe.kind = "banner_grab" /\ probe.timeout >= 0) =>
        probe.elapsed <= probe.timeout

\* C29: a passive read that fails with a socket error other than a timeout
\* ends the banner probe at once with no entry and nothing sent, on a web port
\* too, while a probe whose passive read timed out or gave nothing goes on
\* through the HTTP step and the generic step.
C29_ResetEndsProbe ==
    /\ (/\ probe.kind = "banner_grab" /\ probe.reads # <<>>
        /\ probe.reads[1] = "reset") =>
           /\ probe.pc = "returned"
           /\ probe.ret.tag = "none"
           /\ probe.sent = <<>>
           /\ probe.steps = 0
           /\ Len(probe.reads) = 1
    /\ (/\ probe.kind = "banner_grab" /\ probe.pc = "returned"
        /\ probe.reads # <<>> /\ probe.reads[1] \in {"timeout", "empty"}) =>
           probe.steps = 3

\* C29 witness: the passive read on a web port was reset and the probe has
\* returned.
C29_Witness ==
    /\ probe.kind = "banner_grab" /\ probe.pc = "returned"
    /\ probe.port \in WebPorts /\ probe.reads = <<"reset">>

\* C25: no step of a pool thread changes the result list; it grows only in the
\* collecting loop of the calling thread, one entry for each collected future
\* that returned one, in the order the futures are collected.
C25_OnlyCollectorWrites ==
    /\ [][Worker => results' = results]_vars
    /\ [][results' # results =>
            \E i \in Idx :
                /\ collected' = collected \cup {i} /\ i \notin collected
                /\ results' = Append(results, ports[i])]_vars
    /\ [](HoldsExactly(results, collected \cap Opened))

\* C25 witness: two probes ran at the same time and their entries were
\* collected in completion order, the higher port first.
C25_Witness ==
    /\ pc = "collect" /\ nthreads >= 2 /\ collected = Idx
    /\ Len(results) = 2 /\ results[1] > results[2]

\* C27: whatever worker count the caller asks for, through main.py or in a
\* direct call of banner run(), the executor of a banner scan is created with
\* at most 20 workers, so that no more than 20 banner probes are in flight.
C27_BannerWorkersCapped ==
    (kind = "banner_grab" /\ pc \notin {"parse", "exit"}) =>
        max_workers <= BannerWorkerCap

\* The vendor-specific patterns with their labels.
Vendors ==
    {[pat |-> W_openssh, label |-> "OpenSSH"],
     [pat |-> W_vsftpd, label |-> "vsftpd"],
     [pat |-> W_proftpd, label |-> "ProFTPD"],
     [pat |-> W_postfix, label |-> "Postfix"],
     [pat |-> W_exim, label |-> "Exim"]}

\* The vendors whose pattern the banner holds.
VendorsIn(banner) == {v \in Vendors : Contains(Lower(banner), v.pat)}

\* C22: a banner that holds a vendor-specific pattern is labelled with the
\* label of a vendor whose pattern it holds, never with a generic label or a
\* port-table entry, whatever else the banner holds and whatever the port.
C22_VendorLabelWins ==
    (/\ label.pc = "done" /\ label.fn = "_identify_service"
     /\ VendorsIn(label.banner) # {}) =>
        label.out \in {v.label : v \in VendorsIn(label.banner)}

\* Every pattern _identify_service looks for.
AllPatterns ==
    {W_apache, W_nginx, W_microsoft_iis, W_iis, W_lighttpd, W_ssh, W_openssh,
     W_ftp, W_vsftpd, W_proftpd, W_smtp, W_mail, W_postfix, W_exim, W_mysql,
     W_postgresql, W_postgres, W_redis, W_mongodb, W_mongo}

\* C23: labelling always gives a string: for a banner holding none of the
\* patterns the port_hints entry of the port, or "Unknown" for a port not in
\* it; for a port scan the SERVICE_MAP entry of the port, or "unknown".
C23_LabelTotal ==
    label.pc = "done" =>
        /\ label.out # None
        /\ (/\ label.fn = "_identify_service"
            /\ \A w \in AllPatterns : ~Contains(Lower(label.banner), w)) =>
               label.out = IF label.port \in {21, 22, 25, 80, 110, 143, 443,
                                               3306, 5432, 6379, 8080}
                           THEN port_hints[label.port] ELSE "Unknown"
        /\ label.fn = "_get_service_name" =>
               label.out = IF label.port \in DOMAIN SERVICE_MAP
                           THEN SERVICE_MAP[label.port] ELSE "unknown"

\* C23 witness: a banner without any pattern was labelled for a port that
\* port_hints lists.
C23_Witness ==
    /\ label.pc = "done" /\ label.fn = "_identify_service"
    /\ \A w \in AllPatterns : ~Contains(Lower(label.banner), w)
    /\ label.port = 22

\* C24: a run calls _resolve_target once, before it submits any probe, and
\* every probe it submits is given the address that call returned.
C24_ResolvedOnce ==
    /\ resolves <= 1
    /\ (nsub > 0 \/ pc \in {"ctor", "submit", "collect"}) => resolves = 1
    /\ \A i \in 1..nsub : addr[i] = resolved_ip /\ addr[i] # None
    /\ \A i \in Idx : i > nsub => addr[i] = None

\* C24 witness: a run over several ports has completed, each probe having run.
C24_Witness ==
    /\ pc = "done" /\ ~interrupted /\ report.error = NoError
    /\ nsub = Len(ports) /\ nsub >= 2
    /\ \A i \in Idx : calls[i] = 1 /\ addr[i] = ResolvedAddress

\* C28: once the interrupt is delivered nothing more is collected, run()
\* returns only when every submitted probe, those not yet started included,
\* has run to its end, and the report holds what was collected before.
C28_InterruptWaitsForProbes ==
    /\ []((pc = "done" /\ interrupted) =>
            /\ \A i \in 1..nsub : status[i] = "done" /\ calls[i] = 1
            /\ report.results = results)
    /\ [][interrupted =>
            /\ results' = results
            /\ collected' = collected]_vars
    /\ [][(pc = "unwind" /\ pc' = "done") =>
            /\ queue = <<>>
            /\ \A i \in 1..nsub : status[i] = "done"]_vars

\* C28 witness: a run over one worker was interrupted while it was collecting;
\* it returned after the probe behind the last collected one had run and
\* returned an entry, which the report does not hold.
C28_Witness ==
    /\ pc = "done" /\ interrupted
    /\ nsub = Len(ports) /\ collected # {} /\ max_workers = 1
    /\ \E i \in Idx :
          /\ i \notin collected /\ i - 1 \in collected
          /\ status[i] = "done" /\ ret[i] = "value"
          /\ Count(report.results, ports[i]) = 0

\* max_workers as it reaches run() is not a positive integer.
InvalidWorkers(c) ==
    \/ c.max_workers.tag = "text"
    \/ c.max_workers.tag = "int" /\ c.max_workers.val <= 0

\* C16: an invalid max_workers (non-numeric, zero, negative) is replaced by a
\* valid worker count and never makes the run return an error report.
C16_InvalidWorkersReplaced ==
    (InvalidWorkers(CliArgs(kind, config)) /\ pc \notin {"parse", "exit"}) =>
        /\ max_workers >= 1
        /\ report.returned => report.error # MaxWorkersError

\* C17: whatever timeout was given, the timeout run() works with after
\* parsing its configuration, which every probe is submitted with, is positive.
C17_TimeoutPositive == pc \in {"resolve", "ctor", "submit"} => timeout > 0

\* The ports argument is a range that is reversed, leaves 1..65535 or has
\* bounds that are not integers.
InvalidRange(c) ==
    \/ c.ports.tag = "textrange"
    \/ /\ c.ports.tag = "range"
       /\ ~(1 <= c.ports.lo /\ c.ports.lo <= c.ports.hi
            /\ c.ports.hi <= MaxPortNumber)

\* C18: with an invalid port range the run stops with a validation error
\* before resolution: it never reaches the resolver, and the range is never
\* replaced by the default ports or an empty port list.
C18_InvalidRangeRejected ==
    InvalidRange(config) =>
        /\ pc \in {"parse", "exit"}
        /\ report.returned => report.error # NoError

====
